---- MODULE Spec2Model ----
(***************************************************************************)
(* Liquefaction analysis, IS 1893:2016 against IS 1893:2025 (src/app.py).  *)
(*                                                                         *)
(* The script is a Streamlit page: every widget change reruns it from the  *)
(* top with the Calculate button unpressed, a click on Calculate reruns it *)
(* with the button pressed.  One run with the button pressed computes the  *)
(* stresses, the 2016 chain, the 2025 chain (lines 102-232) and then       *)
(* renders both columns and the comparison table (lines 237-301); a Python *)
(* exception anywhere ends the run on the spot.                            *)
(*                                                                         *)
(* Python floats are modelled as decimal fixed-point numbers: an integer v *)
(* stands for v / Scale.  Values saturate at FMax.  The 2016 depth         *)
(* reduction factor keeps seven decimals (RdScale) because its             *)
(* coefficients need them.  The blow count is an integer widget.           *)
(***************************************************************************)
EXTENDS Integers, FiniteSets, TLC

VARIABLES inp, pc, locals, exc, view

vars == <<inp, pc, locals, exc, view>>

-----------------------------------------------------------------------------
(* Fixed-point arithmetic standing for float arithmetic and the math module *)

Scale == 10000
FMax == 2000000000
RdScale == 10000000

Abs(a) == IF a < 0 THEN -a ELSE a
Min(a, b) == IF a < b THEN a ELSE b

SatAdd(a, b) == IF a > FMax - b THEN FMax ELSE a + b

\* a * b for a, b >= 0, computed limb by limb so that no partial product
\* leaves the 32-bit range
MulAbs(a, b) ==
    IF a < 46341 /\ b < 46341 THEN (a * b) \div Scale
    ELSE LET ah == a \div Scale
             al == a % Scale
             bh == b \div Scale
             bl == b % Scale
             hh == IF ah = 0 \/ bh = 0 THEN 0
                   ELSE IF bh > (FMax \div Scale) \div ah THEN FMax
                   ELSE ah * bh * Scale
         IN  SatAdd(SatAdd(SatAdd(hh, ah * bl), al * bh), (al * bl) \div Scale)

MulFix(a, b) ==
    IF (a < 0) = (b < 0) THEN MulAbs(Abs(a), Abs(b)) ELSE -MulAbs(Abs(a), Abs(b))

\* a / b for a >= 0, b > 0, by long division
RECURSIVE DivAbs(_, _)
DivAbs(a, b) ==
    IF b > 20000000 THEN DivAbs(a \div 100, b \div 100)
    ELSE LET q  == a \div b
             r  == a % b
             q1 == (r * 100) \div b
             r1 == (r * 100) % b
             q2 == (r1 * 100) \div b
         IN  IF q >= FMax \div Scale THEN FMax ELSE q * Scale + q1 * 100 + q2

\* a / b, b # 0 (the callers raise ZeroDivisionError first)
DivFix(a, b) ==
    IF (a < 0) = (b < 0) THEN DivAbs(Abs(a), Abs(b)) ELSE -DivAbs(Abs(a), Abs(b))

Sq(a) == MulFix(a, a)
Cube(a) == MulFix(a, Sq(a))
Pow4(a) == MulFix(Sq(a), Sq(a))

\* a value of scale Scale times a value of scale RdScale, in scale Scale
MulRd(a, r) == MulFix(a, r \div 1000) + (a * (r % 1000)) \div RdScale

\* the largest c in lo..hi with c * c <= a
RECURSIVE IntSqrt(_, _, _)
IntSqrt(a, lo, hi) ==
    IF lo >= hi THEN lo
    ELSE LET mid == (lo + hi + 1) \div 2
         IN  IF mid * mid <= a THEN IntSqrt(a, mid, hi) ELSE IntSqrt(a, lo, mid - 1)

RECURSIVE SqrtSearch(_, _, _)
SqrtSearch(a, lo, hi) ==
    IF lo >= hi THEN lo
    ELSE LET mid == (lo + hi + 1) \div 2
             q   == MulAbs(mid, mid)
             fit == q < a \/ (q = a /\ ((mid % Scale) * (mid % Scale)) % Scale = 0)
         IN  IF fit THEN SqrtSearch(a, mid, hi) ELSE SqrtSearch(a, lo, mid - 1)

\* math.sqrt(a), a >= 0 (the callers raise ValueError first): the largest r
\* with r * r <= a (mid * mid <= a * Scale in SqrtSearch), which lies within
\* 100 units above 100 * IntSqrt(a)
Sqrt(a) ==
    LET c == IntSqrt(a, 0, Min(a, 44721))
    IN  SqrtSearch(a, 100 * c, 100 * c + 99)

RECURSIVE ExpSeries(_, _, _)
ExpSeries(f, term, k) ==
    IF term = 0 THEN 0 ELSE term + ExpSeries(f, MulAbs(term, f) \div k, k + 1)

\* e ** n for a whole n >= 0
ExpInt(n) ==
    IF n >= 13 THEN FMax
    ELSE <<10000, 27183, 73891, 200855, 545982, 1484132, 4034288, 10966332,
           29809580, 81030839, 220264658, 598741417, 1627547914>>[n + 1]

ExpPos(x) == MulAbs(ExpInt(x \div Scale), ExpSeries(x % Scale, Scale, 1))

\* math.exp(x); it raises OverflowError above ln(max float) = 709.7827
Exp(x) == IF x >= 0 THEN ExpPos(x) ELSE DivAbs(Scale, ExpPos(-x))
ExpOverflows(x) == x > 7097827

\* math.log(x), x > 0
RECURSIVE Ln(_)
Ln(x) ==
    IF x >= 2 * Scale THEN Ln(x \div 2) + 6931
    ELSE IF x < Scale THEN Ln(2 * x) - 6931
    ELSE LET t  == DivAbs(x - Scale, x + Scale)
             t2 == MulAbs(t, t)
             t3 == MulAbs(t, t2)
             t5 == MulAbs(t3, t2)
             t7 == MulAbs(t5, t2)
             t9 == MulAbs(t7, t2)
         IN  2 * (t + t3 \div 3 + t5 \div 5 + t7 \div 7 + t9 \div 9)

\* b ** e for a float b >= 0 (0.0 ** e with e < 0 raises ZeroDivisionError,
\* a negative b gives a complex number: the callers stop before both)
Pow(b, e) ==
    IF b = 0 THEN (IF e = 0 THEN Scale ELSE 0) ELSE Exp(MulFix(e, Ln(b)))

\* math.sin(x), x in radians
RECURSIVE Sin(_)
Sin(x) ==
    IF x > 31416 THEN Sin(x - 62832)
    ELSE IF x < -31416 THEN Sin(x + 62832)
    ELSE IF x > 15708 THEN Sin(31416 - x)
    ELSE IF x < -15708 THEN Sin(-31416 - x)
    ELSE LET x2 == MulFix(x, x)
             x3 == MulFix(x, x2)
             x5 == MulFix(x3, x2)
             x7 == MulFix(x5, x2)
             x9 == MulFix(x7, x2)
         IN  x - x3 \div 6 + x5 \div 120 - x7 \div 5040 + x9 \div 362880

\* f"{v:.3f}"
Fmt3(v) == IF v >= 0 THEN (v + 5) \div 10 ELSE -((5 - v) \div 10)
Fmt3Rd(r) == (r + 5000) \div 10000

-----------------------------------------------------------------------------
(* Constants and helper functions of the script *)

gamma_w == 98100
Pa == 1000000

\* calculate_rd_2016 with the first breakpoint given to the upper segment
calculate_rd_2016_lt(z) ==
    IF z < 91500 THEN RdScale - (765 * z) \div 100
    ELSE IF z <= 230000 THEN 11740000 - (267 * z) \div 10
    ELSE IF z <= 300000 THEN 7440000 - 8 * z
    ELSE 5000000

calculate_rd_2016(z) ==
    IF z <= 91500 THEN RdScale - (765 * z) \div 100
    ELSE IF z <= 230000 THEN 11740000 - (267 * z) \div 10
    ELSE IF z <= 300000 THEN 7440000 - 8 * z
    ELSE 5000000

calculate_rd_2025(z, mw) ==
    LET alpha == -10120 - MulFix(11260, Sin(DivFix(z, 117300) + 51330))
        beta  == 1060 + MulFix(1180, Sin(DivFix(z, 112800) + 51420))
    IN  Exp(alpha + MulFix(beta, mw))

-----------------------------------------------------------------------------
(* The statements of one run.  i is the record of widget values, ns the    *)
(* variables the run has assigned so far.                                  *)

sigma_v0(i) == MulFix(i.gamma_sat, i.z)

\* sigma_v0_eff without the test of the water table
sigma_v0_eff_nobranch(i, ns) ==
    MulFix(i.gamma_sat, i.gwt) + MulFix(i.gamma_sat - gamma_w, i.z - i.gwt)

sigma_v0_eff(i, ns) ==
    IF i.z > i.gwt
    THEN MulFix(i.gamma_sat, i.gwt) + MulFix(i.gamma_sat - gamma_w, i.z - i.gwt)
    ELSE ns.sigma_v0

csr_16(i, ns) ==
    MulRd(MulFix(MulFix(6500, i.pga), DivFix(ns.sigma_v0, ns.sigma_v0_eff)), ns.rd_16)

cn_16(i, ns) == Min(17000, Sqrt(DivFix(Pa, ns.sigma_v0_eff)))

n1_60_16(i, ns) == i.n_value * ns.cn_16

\* alpha_16 with 35 given to the regression
alpha_16_le35(i) ==
    IF i.fc <= 50000 THEN 0
    ELSE IF i.fc <= 350000 THEN Exp(17600 - DivFix(1900000, Sq(i.fc)))
    ELSE 5000

alpha_16(i) ==
    IF i.fc <= 50000 THEN 0
    ELSE IF i.fc < 350000 THEN Exp(17600 - DivFix(1900000, Sq(i.fc)))
    ELSE 5000

beta_16(i) ==
    IF i.fc <= 50000 THEN 10000
    ELSE IF i.fc < 350000 THEN 9900 + DivFix(Pow(i.fc, 15000), 10000000)
    ELSE 12000

n1_60cs_16(i, ns) == ns.alpha_16 + MulFix(ns.beta_16, ns.n1_60_16)

crr_75_16(i, ns) ==
    DivFix(Scale, 340000 - ns.n1_60cs_16) + DivFix(ns.n1_60cs_16, 1350000)
        + DivFix(500000, Sq(10 * ns.n1_60cs_16 + 450000)) - 50

msf_16(i) == DivFix(Pow(100000, 22400), Pow(i.mw, 25600))

\* k_sigma_16 reading the other method's input
k_sigma_16_assumed(i, ns) == Pow(DivFix(ns.sigma_v0_eff, Pa), i.n1_60_assumed - Scale)

k_sigma_16(i, ns) == Pow(DivFix(ns.sigma_v0_eff, Pa), i.fs_exponent - Scale)

crr_16(i, ns) == MulFix(MulFix(ns.crr_75_16, ns.msf_16), ns.k_sigma_16)

fos_16(i, ns) == DivFix(ns.crr_16, ns.csr_16)

csr_25(i, ns) ==
    MulFix(MulFix(MulFix(6500, i.pga), DivFix(ns.sigma_v0, ns.sigma_v0_eff)), ns.rd_25)

\* m_25 taking the root of the magnitude of any nonzero value
m_25_abs(i) ==
    IF i.n1_60_assumed # 0 THEN 7840 - MulFix(768, Sqrt(Abs(i.n1_60_assumed)))
    ELSE 7840

m_25(i) ==
    IF i.n1_60_assumed > 0 THEN 7840 - MulFix(768, Sqrt(i.n1_60_assumed))
    ELSE 7840

\* a negative base with a fractional exponent binds a complex number, which
\* the min of the following statement rejects
cn_25_raw(i, ns) ==
    IF DivFix(Pa, ns.sigma_v0_eff) < 0 THEN "complex"
    ELSE Pow(DivFix(Pa, ns.sigma_v0_eff), ns.m_25)

cn_25(i, ns) == Min(17000, ns.cn_25_raw)

n1_60_25_calc(i, ns) == i.n_value * ns.cn_25

fc_term(i) == i.fc + 100

delta_n1_25_arg(i, ns) ==
    16300 + DivFix(97000, ns.fc_term) - Sq(DivFix(157000, ns.fc_term))

delta_n1_25(i, ns) == Exp(delta_n1_25_arg(i, ns))

n1_60cs_25(i, ns) == ns.n1_60_25_calc + ns.delta_n1_25

\* c_sigma_25 with the singularity test missing its abs
c_sigma_25_noabs(i, ns) ==
    IF ns.n1_60cs_25 >= 0
    THEN LET denom == 189000 - MulFix(25500, Sqrt(ns.n1_60cs_25))
         IN  IF denom < 1 THEN 0 ELSE DivFix(Scale, denom)
    ELSE 0

c_sigma_25(i, ns) ==
    IF ns.n1_60cs_25 >= 0
    THEN LET denom == 189000 - MulFix(25500, Sqrt(ns.n1_60cs_25))
         IN  IF Abs(denom) < 1 THEN 0 ELSE DivFix(Scale, denom)
    ELSE 0

k_sigma_25(i, ns) ==
    IF ns.c_sigma_25 < 3000
    THEN Scale - MulFix(ns.c_sigma_25, Ln(DivFix(ns.sigma_v0_eff, Pa)))
    ELSE Scale - MulFix(3000, Ln(DivFix(ns.sigma_v0_eff, Pa)))

crr_75_25_arg(i, ns) ==
    -28000 + DivFix(ns.n1_60cs_25, 141000) + Sq(DivFix(ns.n1_60cs_25, 1260000))
        - Cube(DivFix(ns.n1_60cs_25, 236000)) + Pow4(DivFix(ns.n1_60cs_25, 254000))

crr_75_25(i, ns) == Exp(crr_75_25_arg(i, ns))

msf_max_25(i, ns) == MulFix(10900, Sq(DivFix(ns.n1_60cs_25, 315000)))

msf_term_B(i) == MulFix(86400, Exp(MulFix(-2500, i.mw))) - 13250

msf_25(i, ns) == Scale + MulFix(ns.msf_max_25 - Scale, ns.msf_term_B)

crr_25(i, ns) == MulFix(MulFix(ns.crr_75_25, ns.msf_25), ns.k_sigma_25)

fos_25(i, ns) == DivFix(ns.crr_25, ns.csr_25)

-----------------------------------------------------------------------------
(* One run with the button pressed, lines 102-232.  A frame is the run's   *)
(* variables and the exception that ended it, if any.                      *)

Ok(ns) == [ns |-> ns, exc |-> "none"]
Raise(ns, e) == [ns |-> ns, exc |-> e]

StressState(i) == [sigma_v0 |-> sigma_v0(i), sigma_v0_eff |-> sigma_v0_eff(i, [sigma_v0 |-> sigma_v0(i)])]

\* The assignments of lines 119-232 in order: what statement k binds
Statement(k, i, ns) ==
    CASE k = 1 -> [rd_16 |-> calculate_rd_2016(i.z)]
      [] k = 2 -> [csr_16 |-> csr_16(i, ns)]
      [] k = 3 -> [cn_16 |-> cn_16(i, ns)]
      [] k = 4 -> [n1_60_16 |-> n1_60_16(i, ns)]
      [] k = 5 -> [alpha_16 |-> alpha_16(i), beta_16 |-> beta_16(i)]
      [] k = 6 -> [n1_60cs_16 |-> n1_60cs_16(i, ns)]
      [] k = 7 -> [crr_75_16 |-> crr_75_16(i, ns)]
      [] k = 8 -> [msf_16 |-> msf_16(i)]
      [] k = 9 -> [k_sigma_16 |-> k_sigma_16(i, ns)]
      [] k = 10 -> [crr_16 |-> crr_16(i, ns)]
      [] k = 11 -> [fos_16 |-> fos_16(i, ns)]
      [] k = 12 -> [rd_25 |-> calculate_rd_2025(i.z, i.mw)]
      [] k = 13 -> [csr_25 |-> csr_25(i, ns)]
      [] k = 14 -> [m_25 |-> m_25(i)]
      [] k = 15 -> [cn_25_raw |-> cn_25_raw(i, ns)]
      [] k = 16 -> [cn_25 |-> cn_25(i, ns)]
      [] k = 17 -> [n1_60_25_calc |-> n1_60_25_calc(i, ns)]
      [] k = 18 -> [fc_term |-> fc_term(i)]
      [] k = 19 -> [delta_n1_25 |-> delta_n1_25(i, ns)]
      [] k = 20 -> [n1_60cs_25 |-> n1_60cs_25(i, ns)]
      [] k = 21 -> [c_sigma_25 |-> c_sigma_25(i, ns)]
      [] k = 22 -> [k_sigma_25 |-> k_sigma_25(i, ns)]
      [] k = 23 -> [crr_75_25 |-> crr_75_25(i, ns)]
      [] k = 24 -> [msf_max_25 |-> msf_max_25(i, ns)]
      [] k = 25 -> [msf_term_B |-> msf_term_B(i)]
      [] k = 26 -> [msf_25 |-> msf_25(i, ns)]
      [] k = 27 -> [crr_25 |-> crr_25(i, ns)]
      [] k = 28 -> [fos_25 |-> fos_25(i, ns)]

\* The Python exception statement k raises, "none" if it raises nothing
Raises(k, i, ns) ==
    CASE k \in {2, 13} /\ ns.sigma_v0_eff = 0 -> "ZeroDivisionError"
      [] k = 3 /\ DivFix(Pa, ns.sigma_v0_eff) < 0 -> "ValueError"
      [] k = 7 /\ (340000 - ns.n1_60cs_16 = 0 \/ Sq(10 * ns.n1_60cs_16 + 450000) = 0)
            -> "ZeroDivisionError"
      [] k = 9 /\ DivFix(ns.sigma_v0_eff, Pa) = 0 /\ i.fs_exponent < Scale
            -> "ZeroDivisionError"
      [] k = 11 /\ ns.csr_16 = 0 -> "ZeroDivisionError"
      [] k = 15 /\ DivFix(Pa, ns.sigma_v0_eff) = 0 /\ ns.m_25 < 0 -> "ZeroDivisionError"
      [] k = 16 /\ DivFix(Pa, ns.sigma_v0_eff) < 0 -> "TypeError"
      [] k = 19 /\ ns.fc_term = 0 -> "ZeroDivisionError"
      [] k = 19 /\ ns.fc_term # 0 /\ ExpOverflows(delta_n1_25_arg(i, ns)) -> "OverflowError"
      [] k = 22 /\ DivFix(ns.sigma_v0_eff, Pa) <= 0 -> "ValueError"
      [] k = 23 /\ ExpOverflows(crr_75_25_arg(i, ns)) -> "OverflowError"
      [] k = 28 /\ ns.csr_25 = 0 -> "ZeroDivisionError"
      [] OTHER -> "none"

\* Statements k..last in order, stopping at the first that raises
RECURSIVE Run(_, _, _, _)
Run(i, ns, k, last) ==
    IF k > last THEN Ok(ns)
    ELSE IF Raises(k, i, ns) # "none" THEN Raise(ns, Raises(k, i, ns))
    ELSE Run(i, ns @@ Statement(k, i, ns), k + 1, last)

Analysis2016(i, st) == Run(i, st, 1, 11)

Analysis2025(i, ns) == Run(i, ns, 12, 28)

\* lines 106-232: the 2016 chain, then the 2025 chain unless the run has ended
Evaluate(i) == Run(i, StressState(i), 1, 28)

-----------------------------------------------------------------------------
(* Rendering, lines 237-301 *)

classify_16(fos) ==
    IF fos < 10000 THEN "Unsafe" ELSE IF fos < 12000 THEN "Marginal" ELSE "Safe"

\* classify_25 with 1.0 given to the lower band
classify_25_le(fos) ==
    IF fos <= 10000 THEN "Unsafe" ELSE IF fos < 12000 THEN "Marginal" ELSE "Safe"

classify_25(fos) ==
    IF fos < 10000 THEN "Unsafe" ELSE IF fos < 12000 THEN "Marginal" ELSE "Safe"

Render(ns) ==
    [kind |-> "results",
     col1 |-> [CSR |-> Fmt3(ns.csr_16), CRR |-> Fmt3(ns.crr_16),
               FOS |-> Fmt3(ns.fos_16), status |-> classify_16(ns.fos_16),
               details |-> <<Fmt3Rd(ns.rd_16), Fmt3(ns.cn_16), Fmt3(ns.n1_60cs_16),
                             Fmt3(ns.msf_16), Fmt3(ns.k_sigma_16)>>],
     col2 |-> [CSR |-> Fmt3(ns.csr_25), CRR |-> Fmt3(ns.crr_25),
               FOS |-> Fmt3(ns.fos_25), status |-> classify_25(ns.fos_25),
               details |-> <<Fmt3(ns.rd_25), Fmt3(ns.m_25), Fmt3(ns.cn_25),
                             Fmt3(ns.n1_60_25_calc), Fmt3(ns.delta_n1_25),
                             Fmt3(ns.n1_60cs_25), Fmt3(ns.c_sigma_25),
                             Fmt3(ns.k_sigma_25), Fmt3(ns.msf_max_25),
                             Fmt3(ns.msf_25)>>],
     table |-> << <<Fmt3Rd(ns.rd_16), Fmt3(ns.rd_25)>>,
                  <<Fmt3(ns.csr_16), Fmt3(ns.csr_25)>>,
                  <<Fmt3(ns.n1_60cs_16), Fmt3(ns.n1_60cs_25)>>,
                  <<Fmt3(ns.msf_16), Fmt3(ns.msf_25)>>,
                  <<Fmt3(ns.k_sigma_16), Fmt3(ns.k_sigma_25)>>,
                  <<Fmt3(ns.crr_16), Fmt3(ns.crr_25)>>,
                  <<Fmt3(ns.fos_16), Fmt3(ns.fos_25)>> >>]

InfoView == [kind |-> "info"]
ExceptionView(e) == [kind |-> "exception", error |-> e]

-----------------------------------------------------------------------------
(* The widgets and the values the model lets the user enter *)

MaxPgaIdx == 2
MaxNIdx == 2
FosSpan == 2

Defaults ==
    [pga |-> 1620, mw |-> 65000, gwt |-> 70000, z |-> 74500,
     gamma_sat |-> 190000, n_value |-> 14, fc |-> 651500,
     fs_exponent |-> 6500, n1_60_assumed |-> 370000]

Fields == DOMAIN Defaults

Values(f) ==
    CASE f = "pga" -> {1620 * k : k \in 0..MaxPgaIdx}
      [] f = "mw" -> {65000}
      [] f = "gwt" -> {0, 70000}
      [] f = "z" -> {50000, 74500, 91500, 230000, 300000, 310000}
      [] f = "gamma_sat" -> {50000, 98100, 190000, 200000}
      [] f = "n_value" -> {14 + 20 * k : k \in -1..MaxNIdx}
      [] f = "fc" -> {50000, 95190, 350000, 651500}
      [] f = "fs_exponent" -> {6500}
      [] f = "n1_60_assumed" -> {-40000, 370000}

NoLocals == [n \in {} |-> 0]

Init ==
    /\ inp = Defaults
    /\ pc = "idle"
    /\ locals = NoLocals
    /\ exc = "none"
    /\ view = InfoView

\* A widget changes: the script reruns with calculate_btn False (line 304)
Edit ==
    /\ pc \in {"idle", "shown", "failed"}
    /\ \E f \in Fields : \E x \in Values(f) :
          /\ x # inp[f]
          /\ inp' = [inp EXCEPT ![f] = x]
    /\ pc' = "idle"
    /\ locals' = NoLocals
    /\ exc' = "none"
    /\ view' = InfoView

\* Calculate is clicked: lines 102-232
Compute ==
    /\ pc \in {"idle", "shown", "failed"}
    /\ \E f \in {Evaluate(inp)} :
          /\ locals' = f.ns
          /\ exc' = f.exc
          /\ pc' = IF f.exc = "none" THEN "computed" ELSE "failed"
          /\ view' = IF f.exc = "none" THEN InfoView ELSE ExceptionView(f.exc)
    /\ UNCHANGED inp

\* lines 237-301
Display ==
    /\ pc = "computed"
    /\ view' = Render(locals)
    /\ pc' = "shown"
    /\ UNCHANGED <<inp, locals, exc>>

Next == Edit \/ Compute \/ Display

Spec == Init /\ [][Next]_vars

\* The same run entered at line 237 with the factors of safety on the grid
\* around the two thresholds of the status banner
FosGrid == {10000 + k : k \in -FosSpan..FosSpan} \cup {12000 + k : k \in -FosSpan..FosSpan}

InitDisplay ==
    /\ inp = Defaults
    /\ pc = "computed"
    /\ \E f16 \in FosGrid : \E f25 \in FosGrid :
          locals = [Evaluate(Defaults).ns EXCEPT !.fos_16 = f16, !.fos_25 = f25]
    /\ exc = "none"
    /\ view = InfoView

SpecDisplay == InitDisplay /\ [][Next]_vars

-----------------------------------------------------------------------------
(* Properties *)

Assigned(n) == n \in DOMAIN locals

\* valid inputs in the sense of the data model
Valid(i) == i.z > 0 /\ i.gamma_sat > 0 /\ i.gwt >= 0

Band(fos) ==
    CASE fos < 10000 -> "Unsafe"
      [] fos >= 10000 /\ fos < 12000 -> "Marginal"
      [] fos >= 12000 -> "Safe"

\* C1: the status shown for a factor of safety, of either method, is Unsafe
\* below 1.0, Marginal from 1.0 inclusive to 1.2 exclusive and Safe from 1.2
\* inclusive.
C1_Classification ==
    pc = "shown" =>
        /\ view.col1.status = Band(locals.fos_16)
        /\ view.col2.status = Band(locals.fos_25)

C1_Witness ==
    /\ pc = "shown"
    /\ locals.fos_16 = 10000 /\ view.col1.status = "Marginal"
    /\ locals.fos_25 = 9999 /\ view.col2.status = "Unsafe"

\* C2 as stated: for valid inputs 0 < effective stress <= total stress, with
\* equality iff depth <= groundwater depth.
C2_Original ==
    (Assigned("sigma_v0_eff") /\ Valid(inp)) =>
        /\ 0 < locals.sigma_v0_eff
        /\ locals.sigma_v0_eff <= locals.sigma_v0
        /\ (locals.sigma_v0_eff = locals.sigma_v0) <=> (inp.z <= inp.gwt)

\* C2 amended: for valid inputs effective stress <= total stress, with
\* equality iff depth <= groundwater depth; the effective stress is positive
\* when the saturated unit weight exceeds that of water or the depth is not
\* below the water table.
C2_StressInvariant ==
    (Assigned("sigma_v0_eff") /\ Valid(inp)) =>
        /\ locals.sigma_v0_eff <= locals.sigma_v0
        /\ (locals.sigma_v0_eff = locals.sigma_v0) <=> (inp.z <= inp.gwt)
        /\ (inp.gamma_sat > gamma_w \/ inp.z <= inp.gwt) => 0 < locals.sigma_v0_eff

C2_Witness ==
    /\ Assigned("sigma_v0_eff") /\ Valid(inp)
    /\ inp.z > inp.gwt /\ inp.gamma_sat > gamma_w
    /\ 0 < locals.sigma_v0_eff /\ locals.sigma_v0_eff < locals.sigma_v0

\* C3: when the 2016 chain ends in an exception and every 2025 formula is
\* defined for the same inputs, the run still shows the 2025 factor of safety
\* and its status.
C3_IndependentFailure ==
    LET st  == StressState(inp)
        f25 == Analysis2025(inp, st)
    IN  (pc \in {"shown", "failed"} /\ Analysis2016(inp, st).exc # "none"
            /\ f25.exc = "none") =>
            /\ view.kind = "results"
            /\ view.col2.FOS = Fmt3(f25.ns.fos_25)
            /\ view.col2.status = Band(f25.ns.fos_25)

Out16(ns) ==
    <<ns.rd_16, ns.csr_16, ns.n1_60cs_16, ns.msf_16, ns.k_sigma_16, ns.crr_16,
      ns.fos_16, Band(ns.fos_16)>>

\* C4: every 2016 output is the same for input records that differ only in
\* the assumed (N1)60 of the 2025 method, negative values included.
C4_Independence ==
    Assigned("fos_16") =>
        \A a \in Values("n1_60_assumed") \cup {0} :
            LET j == [inp EXCEPT !.n1_60_assumed = a]
                o == Analysis2016(j, StressState(j))
            IN  o.exc = "none" /\ Out16(o.ns) = Out16(locals)

C4_Witness ==
    /\ pc = "shown" /\ inp.n1_60_assumed < 0
    /\ Assigned("fos_16") /\ Assigned("fos_25")

C6_CSigma ==
    Assigned("n1_60cs_25") =>
        /\ Assigned("c_sigma_25")
        /\ LET x == locals.n1_60cs_25
           IN  IF x < 0 \/ Abs(189000 - MulFix(25500, Sqrt(x))) < 1
               THEN locals.c_sigma_25 = 0
               ELSE locals.c_sigma_25 = DivFix(Scale, 189000 - MulFix(25500, Sqrt(x)))

C6_Witness ==
    /\ pc = "shown"
    /\ locals.n1_60cs_25 >= 0
    /\ 189000 - MulFix(25500, Sqrt(locals.n1_60cs_25)) = 0
    /\ locals.c_sigma_25 = 0

MaxDepthIdx == 62
DepthGrid == {5000 * k : k \in 1..MaxDepthIdx} \cup {91500, 91501, 230000, 230001, 300000, 300001}

\* C7: the 2016 depth reduction factor lies in (0, 1] for 0 < z <= 30, is
\* 1.0 - 0.00765 * 9.15 at z = 9.15, 1.174 - 0.0267 * 23 at z = 23 and 0.5
\* above 30.
C7_Rd2016 ==
    Assigned("rd_16") =>
        /\ (0 < inp.z /\ inp.z <= 300000) => (0 < locals.rd_16 /\ locals.rd_16 <= RdScale)
        /\ inp.z = 91500 => locals.rd_16 = 9300025
        /\ inp.z = 230000 => locals.rd_16 = 5599000
        /\ inp.z > 300000 => locals.rd_16 = 5000000
        /\ \A z \in DepthGrid :
              /\ z <= 300000 => (0 < calculate_rd_2016(z) /\ calculate_rd_2016(z) <= RdScale)
              /\ z > 300000 => calculate_rd_2016(z) = 5000000

C7_Witness ==
    /\ pc = "shown" /\ inp.z = 91500 /\ locals.rd_16 = 9300025

\* C8: for valid inputs, a larger pga with every other input fixed gives a
\* strictly larger CSR, for both methods.
C8_CsrIncreasesWithPga ==
    (Valid(inp) /\ Assigned("csr_16")) =>
        \A p \in Values("pga") :
            p > inp.pga =>
                LET j == [inp EXCEPT !.pga = p]
                    o == Evaluate(j).ns
                IN  /\ "csr_16" \in DOMAIN o /\ o.csr_16 > locals.csr_16
                    /\ Assigned("csr_25") =>
                          ("csr_25" \in DOMAIN o /\ o.csr_25 > locals.csr_25)

\* C9: with an effective stress <= 0 the run ends in an error before any
\* stress-dependent quantity is computed: no CSR, CN or K-sigma is computed
\* and no factor of safety is shown.
C9_NonPositiveStressBlocks ==
    (Assigned("sigma_v0_eff") /\ locals.sigma_v0_eff <= 0) =>
        /\ exc # "none"
        /\ DOMAIN locals \cap {"csr_16", "cn_16", "k_sigma_16", "csr_25", "cn_25",
                               "k_sigma_25", "fos_16", "fos_25"} = {}
        /\ view.kind # "results"

\* C10: the 2016 fines correction has alpha = 0, beta = 1 for fc <= 5,
\* alpha = 0.5, beta = 1.2 for fc >= 35, the regression
\* alpha = e^(1.76 - 190/fc^2), beta = 0.99 + fc^1.5/1000 strictly between,
\* and (N1)60cs = alpha + beta * (N1)60 in every case.
C10_FinesCorrection ==
    Assigned("n1_60cs_16") =>
        /\ inp.fc <= 50000 => (locals.alpha_16 = 0 /\ locals.beta_16 = 10000)
        /\ inp.fc >= 350000 => (locals.alpha_16 = 5000 /\ locals.beta_16 = 12000)
        /\ (50000 < inp.fc /\ inp.fc < 350000) =>
              /\ locals.alpha_16 = Exp(17600 - DivFix(1900000, MulFix(inp.fc, inp.fc)))
              /\ locals.beta_16 = 9900 + DivFix(Pow(inp.fc, 15000), 10000000)
        /\ locals.n1_60cs_16 = locals.alpha_16 + MulFix(locals.beta_16, locals.n1_60_16)

C10_Witness ==
    /\ pc = "shown" /\ inp.fc = 350000
    /\ locals.alpha_16 = 5000 /\ locals.beta_16 = 12000

====
